---- MODULE Spec2Model ----
(***************************************************************************)
(* A model of py3status/modules/usbguard.py: the USBGuard companion.       *)
(*                                                                         *)
(* Two threads share two dictionaries of the Py3status object, self.data   *)
(* (the Registry of pending devices) and self.new_data (the cached         *)
(* composite that usbguard() renders):                                     *)
(*   - the UsbguardListener thread: run(), then the GLib main loop, which  *)
(*     calls _on_devices_presence_changed / _on_devices_policy_changed;    *)
(*   - the thread of py3status that delivers clicks: on_click(), which     *)
(*     calls _set_policy().                                                *)
(* There is no lock in the source.  Each action below is one access of a   *)
(* thread to the shared state (the interpreter may switch threads between  *)
(* any two bytecodes), so the model interleaves the two handlers at the    *)
(* granularity of their reads and writes of self.data and self.new_data.   *)
(***************************************************************************)
EXTENDS Integers, Sequences, FiniteSets, TLC

\* ------------------------------------------------------------- bounds
\* Device ids are 1..MaxId (the daemon numbers devices from 1).
MaxId == 2
\* Events (signals and clicks) delivered to the module in one run.
MaxEvents == 3

Ids == 1..MaxId

\* ------------------------------------------------------- Python values
\* A Python value is a tagged record, so that None, integers and strings
\* can be compared with one another as Python compares them.
NoneV == [t |-> "none"]
IntV(n) == [t |-> "int", n |-> n]
StrV(s) == [t |-> "str", s |-> s]

\* bool(v): None, 0 and '' are false.
Truthy(v) ==
    CASE v.t = "none" -> FALSE
      [] v.t = "int" -> v.n # 0
      [] v.t = "str" -> v.s # ""

\* bool(d) of a dict d (a function of its keys): the empty dict is false.
TruthyDict(d) == DOMAIN d # {}

\* d[k] = v on a dict held as a function.
WithKey(d, k, v) == [f \in DOMAIN d \cup {k} |-> IF f = k THEN v ELSE d[f]]

\* ------------------------------------------------- the ordered dict data
\* self.data is a dict: a sequence of entries [k, v] in insertion order,
\* with at most one entry per key.
DictKeys(d) == {d[i].k : i \in 1..Len(d)}

DictHas(d, k) == k \in DictKeys(d)

DictGet(d, k) == d[CHOOSE i \in 1..Len(d) : d[i].k = k].v

\* A dict that appended on every assignment would keep the old entry of an
\* existing key beside the new one.
DictSetAppend(d, k, v) == Append(d, [k |-> k, v |-> v])

\* d[k] = v: an existing key keeps its place and gets the new value, a new
\* key is appended.
DictSet(d, k, v) ==
    IF DictHas(d, k)
    THEN [i \in 1..Len(d) |-> IF d[i].k = k THEN [k |-> k, v |-> v] ELSE d[i]]
    ELSE Append(d, [k |-> k, v |-> v])

\* A deletion that truncated the dict at the key would take the later
\* entries with it.
DictDelFrom(d, k) ==
    SubSeq(d, 1, (CHOOSE i \in 1..Len(d) : d[i].k = k) - 1)

\* del d[k], for a key that is there.
DictDel(d, k) == SelectSeq(d, LAMBDA e : e.k # k)

\* --------------------------------------------------------- configuration
button_allow == 1
button_block == 3
\* The default is None (reject disabled); the model configures button 2 so
\* that the reject branch of on_click can run.
button_reject == 2

\* The placeholders of format_device '{name}' and of format_notification
\* '{name} is {action}' (py3.get_placeholders_list).
FormatPlaceholders == {"name", "action"}

\* format_notification is a non-empty string, so `if self.format_notification`
\* holds.
format_notification == StrV("{name} is {action}")

available_placeholders ==
    {"id", "name", "via_port", "hash", "parent_hash", "serial",
     "with_interface", "format_device"}

\* self.placeholders after post_config_hook.
placeholders ==
    {p \in available_placeholders : p \in FormatPlaceholders} \cup {"usbguard_id"}

\* new_key.replace('_', '-') on the closed set of placeholder names.
ReplaceUnderscore(k) ==
    CASE k = "via_port" -> "via-port"
      [] k = "parent_hash" -> "parent-hash"
      [] k = "with_interface" -> "with-interface"
      [] k = "format_device" -> "format-device"
      [] k = "usbguard_id" -> "usbguard-id"
      [] OTHER -> k

targets(action) ==
    CASE action = "allow" -> 0
      [] action = "block" -> 1
      [] action = "reject" -> 2

\* ---------------------------------------------------------------- inputs
\* The permission string (the device rule) is used only through
\* `'allow id' in s`, `'block id' in s` and `'reject id' in s`: it is
\* modelled by the set of these three words it contains.
PermWords == {"allow id", "block id", "reject id"}
Perms == SUBSET PermWords

\* DevicePresenceChanged state codes: 0 present, 1 inserted, 2 updated,
\* 3 removed.
States == 0..3

\* The attribute mapping event[4][4]: external (dash-separated) keys to
\* strings; a key may be missing and a value may be empty.
AttrMaps ==
    UNION {[S -> {"", "Mass Storage"}] : S \in SUBSET {"name"}}
    \cup {[name |-> "Mass Storage", serial |-> "S1"]}

\* The index of a click event: a device id, the separator's tag, or None.
SEP == StrV("sep")
Indexes == {IntV(i) : i \in Ids} \cup {SEP, NoneV}

Buttons == 1..3

VARIABLES
    data,          \* self.data: the Registry
    new_data,      \* self.new_data: {} or {'format_device': composite}
    error,         \* self.error is set
    proxy,         \* self.proxy exists
    killed,        \* self.killed.is_set()
    is_permanant,  \* self.is_permanant
    subscribed,    \* the signals self.dbus is subscribed to
    lst,           \* the listener thread: where it is, and its locals
    clk,           \* the click thread: where it is, and its locals
    n_signals,     \* the signals handled so far
    n_clicks,      \* the clicks handled so far
    shown,         \* history: the ids a stored composite has tagged
    expected,      \* history: the ids the signals so far leave pending
    response,      \* what the last call of usbguard() gave py3status
    n_renders,     \* the calls of usbguard() so far
    velib          \* the velib_metropole module: its attributes

vars == <<data, new_data, error, proxy, killed, is_permanant, subscribed,
          lst, clk, n_signals, n_clicks, shown, expected, response, n_renders,
          velib>>

NoIter == [used |-> 0, pos |-> 0, dirty |-> FALSE]

\* velib_metropole is another module of the status bar, with attributes of
\* its own: while usbguard is looked at, it is not loaded.
VelibOff == [pc |-> "off"]

\* The click thread outside on_click.
Idle ==
    [pc |-> "idle", action |-> "none", index |-> NoneV, dev |-> <<>>,
     live |-> FALSE, call |-> <<>>, it |-> NoIter, cur |-> 0, acc |-> <<>>,
     exc |-> "none"]

\* The state after post_config_hook: _init_dbus has run once (the proxy
\* was obtained, or self.error is set and self.proxy was never assigned),
\* the dictionaries are empty and the listener thread has been started.
Init ==
    /\ data = <<>>
    /\ new_data = <<>>
    /\ error \in BOOLEAN
    /\ proxy = ~error
    /\ killed = FALSE
    /\ is_permanant = FALSE
    /\ subscribed = {}
    /\ lst = [pc |-> "loop_top", kind |-> "none", id |-> 0, device |-> <<>>,
              it |-> NoIter, cur |-> 0, acc |-> <<>>, exc |-> "none"]
    /\ clk = Idle
    /\ n_signals = 0
    /\ n_clicks = 0
    /\ shown = {}
    /\ expected = {}
    /\ response = [kind |-> "none"]
    /\ n_renders = 0
    /\ velib = VelibOff

\* ------------------------------------------------------ the listener: run
\* UsbguardListener.run, line 116: `while not self.parent.killed.is_set()`.
\* The flag is read here and nowhere else.
run_loop_top ==
    /\ UNCHANGED <<response, n_renders, velib>>
    /\ lst.pc = "loop_top"
    /\ lst' = [lst EXCEPT !.pc = IF killed THEN "exited" ELSE "init_dbus"]
    /\ UNCHANGED <<data, new_data, error, proxy, killed, is_permanant,
                   subscribed, clk, n_signals, n_clicks, expected, shown>>

\* _init_dbus, lines 145-148: SystemBus() is outside the try, so a bus that
\* cannot be reached raises out of run() and ends the thread; otherwise
\* self.error is cleared before the proxy is asked for.
init_dbus_bus ==
    /\ UNCHANGED <<response, n_renders, velib>>
    /\ lst.pc = "init_dbus"
    /\ \/ /\ error' = FALSE
          /\ lst' = [lst EXCEPT !.pc = "init_get"]
       \/ /\ lst' = [lst EXCEPT !.pc = "dead", !.exc = "BusError"]
          /\ UNCHANGED error
    /\ UNCHANGED <<data, new_data, proxy, killed, is_permanant, subscribed,
                   clk, n_signals, n_clicks, expected, shown>>

\* _init_dbus, lines 149-152: self.proxy = self.dbus.get(...), or on any
\* exception self.error is set and self.proxy keeps what it had.
init_dbus_get ==
    /\ UNCHANGED <<response, n_renders, velib>>
    /\ lst.pc = "init_get"
    /\ \/ /\ proxy' = TRUE
          /\ UNCHANGED error
       \/ /\ error' = TRUE
          /\ UNCHANGED proxy
    /\ lst' = [lst EXCEPT !.pc = "get_all"]
    /\ UNCHANGED <<data, new_data, killed, is_permanant, subscribed, clk,
                   n_signals, n_clicks, expected, shown>>

\* _get_all_devices, lines 67-72: self.parent.proxy.listDevices('match').
\* Without a proxy the attribute lookup raises AttributeError; the call
\* itself may fail; neither is caught, so either ends the thread.  The
\* devices listed are only printed.
get_all_devices ==
    /\ UNCHANGED <<response, n_renders, velib>>
    /\ lst.pc = "get_all"
    /\ IF ~proxy
       THEN lst' = [lst EXCEPT !.pc = "dead", !.exc = "AttributeError"]
       ELSE \/ lst' = [lst EXCEPT !.pc = "sub_presence"]
            \/ lst' = [lst EXCEPT !.pc = "dead", !.exc = "DaemonError"]
    /\ UNCHANGED <<data, new_data, error, proxy, killed, is_permanant,
                   subscribed, clk, n_signals, n_clicks, expected, shown>>

\* run, lines 119-122.
subscribe_presence ==
    /\ UNCHANGED <<response, n_renders, velib>>
    /\ lst.pc = "sub_presence"
    /\ subscribed' = subscribed \cup {"DevicePresenceChanged"}
    /\ lst' = [lst EXCEPT !.pc = "sub_policy"]
    /\ UNCHANGED <<data, new_data, error, proxy, killed, is_permanant, clk,
                   n_signals, n_clicks, expected, shown>>

\* run, lines 124-130: the second subscription, then GLib.MainLoop().run(),
\* which nothing in the module quits: the thread stays in the main loop.
subscribe_policy ==
    /\ UNCHANGED <<response, n_renders, velib>>
    /\ lst.pc = "sub_policy"
    /\ subscribed' = subscribed \cup {"DevicePolicyChanged"}
    /\ lst' = [lst EXCEPT !.pc = "mainloop"]
    /\ UNCHANGED <<data, new_data, error, proxy, killed, is_permanant, clk,
                   n_signals, n_clicks, expected, shown>>

\* Py3status.kill, lines 208-209.  The flag is read at line 116 only, which
\* the listener passes before its first signal: a kill after the first
\* signal, click or render changes nothing that is read again, and is left
\* out.
kill ==
    /\ UNCHANGED <<response, n_renders, velib>>
    /\ ~killed
    /\ n_signals = 0
    /\ n_clicks = 0
    /\ n_renders = 0
    /\ killed' = TRUE
    /\ UNCHANGED <<data, new_data, error, proxy, is_permanant, subscribed,
                   lst, clk, n_signals, n_clicks, expected, shown>>

\* --------------------------------------------------- _manipulate_devices
\* py3.safe_format(self.format_device, device) for format_device '{name}':
\* the formatter leaves the placeholder of a missing key as it is and
\* renders None as nothing.
safe_format_device(dev) ==
    IF "name" \notin DOMAIN dev THEN StrV("{name}")
    ELSE IF dev["name"] = NoneV THEN StrV("")
    ELSE dev["name"]

\* One unit of the composite: the formatted device, tagged by
\* composite_update with {'index': data[device]['index']}.
DeviceUnit(dev) == [full_text |-> safe_format_device(dev), index |-> dev["index"]]

\* The ids a composite tags.
Tags(composite) == {composite[i].index.n : i \in 1..Len(composite)}

\* `for device in data`: the iterator notes the dict's size when it is
\* made.
IterNew(d) == [used |-> Len(d), pos |-> 1, dirty |-> FALSE]

\* One step of the iterator.  A dict whose size changed since the iterator
\* was made raises RuntimeError.  A dict whose keys were changed by the
\* other thread and whose size is the same again is a data race: the
\* iterator may raise, stop early, or go on with any key (at most `used`
\* keys in all).  Otherwise the next key in insertion order, or the end.
IterOutcomes(it, acc, d) ==
    IF Len(d) # it.used THEN {[t |-> "raise", k |-> 0, pos |-> 0]}
    ELSE IF it.dirty
    THEN {[t |-> "raise", k |-> 0, pos |-> 0], [t |-> "stop", k |-> 0, pos |-> 0]}
         \cup (IF Len(acc) < it.used
               THEN {[t |-> "key", k |-> d[i].k, pos |-> it.pos + 1] : i \in 1..Len(d)}
               ELSE {})
    ELSE IF it.pos > Len(d) THEN {[t |-> "stop", k |-> 0, pos |-> 0]}
    ELSE {[t |-> "key", k |-> d[it.pos].k, pos |-> it.pos + 1]}

\* The places of a thread inside the loop of _manipulate_devices.
IterPcs == {"manip_next", "manip_body"}

\* Line 227: the iterator is made.
ManipInit(th) == [th EXCEPT !.pc = "manip_next", !.it = IterNew(data), !.acc = <<>>]

\* Line 227: the next key, the end of the loop (the composite is joined and
\* returned to the caller, which stores it), or RuntimeError.
ManipNext(th, o) ==
    CASE o.t = "raise" ->
           [th EXCEPT !.pc = "raised", !.exc = "RuntimeError", !.it = NoIter,
                      !.acc = <<>>, !.cur = 0]
      [] o.t = "stop" -> [th EXCEPT !.pc = "store", !.it = NoIter, !.cur = 0]
      [] o.t = "key" -> [th EXCEPT !.pc = "manip_body", !.it.pos = o.pos, !.cur = o.k]

\* Lines 228-232: data[device] is looked up (KeyError when the other
\* thread deleted the key since the iterator gave it), formatted, tagged
\* and appended.
ManipBody(th) ==
    IF DictHas(data, th.cur)
    THEN [th EXCEPT !.pc = "manip_next", !.cur = 0,
                    !.acc = Append(@, DeviceUnit(DictGet(data, th.cur)))]
    ELSE [th EXCEPT !.pc = "raised", !.exc = "KeyError", !.it = NoIter,
                    !.acc = <<>>, !.cur = 0]

\* What a write of one thread to self.data does to the other thread's view:
\* an iterator in use sees a structural change (a key added or deleted),
\* and a reference to the entry of `id`, taken at line 186 and not yet used
\* at line 187, no longer points into the dict.
OtherSees(th, structural, id) ==
    [th EXCEPT !.it.dirty = @ \/ (structural /\ th.pc \in IterPcs),
               !.live = @ /\ ~(th.pc = "notify_mutate" /\ th.index = IntV(id))]

ListenerSees(structural) ==
    [lst EXCEPT !.it.dirty = @ \/ (structural /\ lst.pc \in IterPcs)]

\* ------------------------------------------ the listener: signal handlers
\* Lines 83-90: the entry built from a signal.  usbguard_id and index are
\* the signal's id; each configured placeholder whose external key is in
\* the attribute mapping is set to the attribute, or to None when the
\* attribute is empty; a placeholder whose key is missing is not set.
NewDevice(id, attrs) ==
    LET given == {p \in placeholders : ReplaceUnderscore(p) \in DOMAIN attrs}
    IN [f \in {"usbguard_id", "index"} \cup given |->
          IF f \in given
          THEN IF Truthy(StrV(attrs[ReplaceUnderscore(f)]))
               THEN StrV(attrs[ReplaceUnderscore(f)])
               ELSE NoneV
          ELSE IntV(id)]

\* The ids pending after a signal, as the specification's decoder reads it:
\* state 1 with 'block id' is an insertion, state 3 a removal, any other
\* presence signal no event.
ExpectedAfterPresence(id, state, perms) ==
    IF state = 1 /\ "block id" \in perms THEN expected \cup {id}
    ELSE IF state = 3 THEN expected \ {id}
    ELSE expected

\* A policy-change granting 'allow id' or 'reject id' ends the pending.
ExpectedAfterPolicy(id, perms) ==
    IF perms \cap {"allow id", "reject id"} # {} THEN expected \ {id} ELSE expected

\* A presence handler that stored the entry of every state-1 signal,
\* without the test of line 82.
on_devices_presence_changed_any_rule ==
    /\ UNCHANGED <<response, n_renders, velib>>
    /\ lst.pc = "mainloop"
    /\ "DevicePresenceChanged" \in subscribed
    /\ n_signals + n_clicks + n_renders < MaxEvents
    /\ \E usbguard_id \in Ids, device_state \in States, device_perms \in Perms,
          attrs \in AttrMaps :
         /\ IF device_state = 1
            THEN /\ data' = DictSet(data, usbguard_id, NewDevice(usbguard_id, attrs))
                 /\ clk' = OtherSees(clk, ~DictHas(data, usbguard_id), usbguard_id)
                 /\ lst' = [lst EXCEPT !.pc = "manip_init",
                                       !.kind = IF "block id" \in device_perms
                                                THEN "insert" ELSE "ignored",
                                       !.id = usbguard_id,
                                       !.device = NewDevice(usbguard_id, attrs)]
            ELSE /\ lst' = [lst EXCEPT
                              !.pc = IF DictHas(data, usbguard_id)
                                     THEN "presence_del" ELSE "manip_init",
                              !.kind = "remove", !.id = usbguard_id]
                 /\ UNCHANGED <<data, clk>>
         /\ expected' = ExpectedAfterPresence(usbguard_id, device_state, device_perms)
    /\ n_signals' = n_signals + 1
    /\ UNCHANGED <<new_data, error, proxy, killed, is_permanant, subscribed,
                   n_clicks, shown>>

\* _on_devices_presence_changed, lines 76-93: the signal is decoded; an
\* insertion with 'block id' stores a fresh entry (line 91); any state but
\* 1 tests `usbguard_id in self.parent.data` (line 93).
on_devices_presence_changed ==
    /\ UNCHANGED <<response, n_renders, velib>>
    /\ lst.pc = "mainloop"
    /\ "DevicePresenceChanged" \in subscribed
    /\ n_signals + n_clicks + n_renders < MaxEvents
    /\ \E usbguard_id \in Ids, device_state \in States, device_perms \in Perms,
          attrs \in AttrMaps :
         /\ IF device_state = 1
            THEN IF "block id" \in device_perms
                 THEN /\ data' = DictSet(data, usbguard_id, NewDevice(usbguard_id, attrs))
                      /\ clk' = OtherSees(clk, ~DictHas(data, usbguard_id), usbguard_id)
                      /\ lst' = [lst EXCEPT !.pc = "manip_init", !.kind = "insert",
                                            !.id = usbguard_id,
                                            !.device = NewDevice(usbguard_id, attrs)]
                 ELSE /\ lst' = [lst EXCEPT !.pc = "manip_init", !.kind = "ignored",
                                            !.id = usbguard_id]
                      /\ UNCHANGED <<data, clk, shown>>
            ELSE /\ lst' = [lst EXCEPT
                              !.pc = IF DictHas(data, usbguard_id)
                                     THEN "presence_del" ELSE "manip_init",
                              !.kind = "remove", !.id = usbguard_id]
                 /\ UNCHANGED <<data, clk, shown>>
         /\ expected' = ExpectedAfterPresence(usbguard_id, device_state, device_perms)
    /\ n_signals' = n_signals + 1
    /\ UNCHANGED <<new_data, error, proxy, killed, is_permanant, subscribed,
                   n_clicks, shown>>

\* Line 94: del self.parent.data[usbguard_id]; KeyError when the click
\* thread deleted the key after the test of line 93.
presence_del ==
    /\ UNCHANGED <<response, n_renders, velib>>
    /\ lst.pc = "presence_del"
    /\ IF DictHas(data, lst.id)
       THEN /\ data' = DictDel(data, lst.id)
            /\ clk' = OtherSees(clk, TRUE, lst.id)
            /\ lst' = [lst EXCEPT !.pc = "manip_init"]
       ELSE /\ lst' = [lst EXCEPT !.pc = "raised", !.exc = "KeyError"]
            /\ UNCHANGED <<data, clk, shown>>
    /\ UNCHANGED <<new_data, error, proxy, killed, is_permanant, subscribed,
                   n_signals, n_clicks, expected, shown>>

\* A policy handler that deleted without the test of line 107.
on_devices_policy_changed_untested ==
    /\ UNCHANGED <<response, n_renders, velib>>
    /\ lst.pc = "mainloop"
    /\ "DevicePolicyChanged" \in subscribed
    /\ n_signals + n_clicks + n_renders < MaxEvents
    /\ \E usbguard_id \in Ids, device_perms \in Perms :
         /\ lst' = [lst EXCEPT
                      !.pc = IF device_perms \cap {"allow id", "reject id"} # {}
                             THEN "policy_del" ELSE "update",
                      !.kind = IF device_perms \cap {"allow id", "reject id"} # {}
                               THEN "grant" ELSE "no_grant",
                      !.id = usbguard_id]
         /\ expected' = ExpectedAfterPolicy(usbguard_id, device_perms)
    /\ n_signals' = n_signals + 1
    /\ UNCHANGED <<data, new_data, error, proxy, killed, is_permanant,
                   subscribed, clk, n_clicks, shown>>

\* _on_devices_policy_changed, lines 102-107: for 'allow id' and then
\* 'reject id', when the word is in the permission string, test
\* `usbguard_id in self.parent.data`; when no test passes, line 113.
on_devices_policy_changed ==
    /\ UNCHANGED <<response, n_renders, velib>>
    /\ lst.pc = "mainloop"
    /\ "DevicePolicyChanged" \in subscribed
    /\ n_signals + n_clicks + n_renders < MaxEvents
    /\ \E usbguard_id \in Ids, device_perms \in Perms :
         /\ lst' = [lst EXCEPT
                      !.pc = IF /\ \E action \in {"allow id", "reject id"} :
                                      action \in device_perms
                                /\ DictHas(data, usbguard_id)
                             THEN "policy_del" ELSE "update",
                      !.kind = IF \E action \in {"allow id", "reject id"} :
                                      action \in device_perms
                               THEN "grant" ELSE "no_grant",
                      !.id = usbguard_id]
         /\ expected' = ExpectedAfterPolicy(usbguard_id, device_perms)
    /\ n_signals' = n_signals + 1
    /\ UNCHANGED <<data, new_data, error, proxy, killed, is_permanant,
                   subscribed, clk, n_clicks, shown>>

\* Line 108: del self.parent.data[usbguard_id]; KeyError when the click
\* thread deleted the key after the test of line 107.
policy_del ==
    /\ UNCHANGED <<response, n_renders, velib>>
    /\ lst.pc = "policy_del"
    /\ IF DictHas(data, lst.id)
       THEN /\ data' = DictDel(data, lst.id)
            /\ clk' = OtherSees(clk, TRUE, lst.id)
            /\ lst' = [lst EXCEPT !.pc = "manip_init"]
       ELSE /\ lst' = [lst EXCEPT !.pc = "raised", !.exc = "KeyError"]
            /\ UNCHANGED <<data, clk, shown>>
    /\ UNCHANGED <<new_data, error, proxy, killed, is_permanant, subscribed,
                   n_signals, n_clicks, expected, shown>>

\* Lines 96-97 and 110-111: self.parent._manipulate_devices(self.parent.data).
listener_manip_init ==
    /\ UNCHANGED <<response, n_renders, velib>>
    /\ lst.pc = "manip_init"
    /\ lst' = ManipInit(lst)
    /\ UNCHANGED <<data, new_data, error, proxy, killed, is_permanant,
                   subscribed, clk, n_signals, n_clicks, expected, shown>>

listener_manip_next ==
    /\ UNCHANGED <<response, n_renders, velib>>
    /\ lst.pc = "manip_next"
    /\ \E o \in IterOutcomes(lst.it, lst.acc, data) : lst' = ManipNext(lst, o)
    /\ UNCHANGED <<data, new_data, error, proxy, killed, is_permanant,
                   subscribed, clk, n_signals, n_clicks, expected, shown>>

listener_manip_body ==
    /\ UNCHANGED <<response, n_renders, velib>>
    /\ lst.pc = "manip_body"
    /\ lst' = ManipBody(lst)
    /\ UNCHANGED <<data, new_data, error, proxy, killed, is_permanant,
                   subscribed, clk, n_signals, n_clicks, expected, shown>>

\* Lines 95 and 109: self.parent.new_data['format_device'] = the composite.
listener_store ==
    /\ UNCHANGED <<response, n_renders, velib>>
    /\ lst.pc = "store"
    /\ new_data' = [format_device |-> lst.acc]
    /\ shown' = shown \cup Tags(lst.acc)
    /\ lst' = [lst EXCEPT !.pc = "update", !.acc = <<>>]
    /\ UNCHANGED <<data, error, proxy, killed, is_permanant, subscribed, clk,
                   n_signals, n_clicks, expected>>

\* Lines 98 and 113: self.parent.py3.update(), and the handler returns to
\* the main loop.
listener_update ==
    /\ UNCHANGED <<response, n_renders, velib>>
    /\ lst.pc = "update"
    /\ lst' = [lst EXCEPT !.pc = "mainloop", !.kind = "none", !.id = 0,
                          !.device = <<>>]
    /\ UNCHANGED <<data, new_data, error, proxy, killed, is_permanant,
                   subscribed, clk, n_signals, n_clicks, expected, shown>>

\* An exception leaves the handler: the main loop reports it and goes on
\* with the next signal.
listener_raised ==
    /\ UNCHANGED <<response, n_renders, velib>>
    /\ lst.pc = "raised"
    /\ lst' = [lst EXCEPT !.pc = "mainloop", !.kind = "none", !.id = 0,
                          !.device = <<>>, !.exc = "none"]
    /\ UNCHANGED <<data, new_data, error, proxy, killed, is_permanant,
                   subscribed, clk, n_signals, n_clicks, expected, shown>>

\* ------------------------------------------------------- the click thread
\* on_click, lines 212-219: the button chooses the action.
ButtonAction(button) ==
    IF button = button_allow THEN "allow"
    ELSE IF button = button_reject THEN "reject"
    ELSE IF button = button_block THEN "block"
    ELSE "none"

\* _set_policy, line 180: `if action and index and index != 'sep'`.
PolicyGuard(action, index) == action # "none" /\ Truthy(index) /\ index # SEP

\* py3.safe_format(self.format_notification, format_notification): what
\* '{name} is {action}' is rendered from.
Notification(dev) == [name |-> safe_format_device(dev), action |-> dev["action"]]

\* on_click and line 180 of _set_policy: a click whose action or index does
\* not pass the guard returns at once; otherwise, format_notification
\* being set, the notification is built first.  py3status calls kill() when
\* it stops the module, and delivers no click after it.  A click carries the
\* index of a segment of the bar: of a device that a stored composite has
\* tagged (the bar may still show it after it left the Registry), of the
\* separator, or none.
on_click ==
    /\ UNCHANGED <<response, n_renders, velib>>
    /\ clk.pc = "idle"
    /\ n_signals + n_clicks + n_renders < MaxEvents
    /\ ~killed
    /\ \E button \in Buttons, index \in Indexes :
         /\ index \in {IntV(i) : i \in shown} \cup {SEP, NoneV}
         /\ clk' = IF PolicyGuard(ButtonAction(button), index)
                   THEN [clk EXCEPT
                           !.pc = IF Truthy(format_notification)
                                  THEN "notify_lookup" ELSE "apply",
                           !.action = ButtonAction(button), !.index = index]
                   ELSE Idle
    /\ n_clicks' = n_clicks + 1
    /\ UNCHANGED <<data, new_data, error, proxy, killed, is_permanant,
                   subscribed, lst, n_signals, expected, shown>>

\* Line 186: format_notification = self.data[index], a reference to the
\* entry itself; KeyError when index is not a key.
set_policy_lookup ==
    /\ UNCHANGED <<response, n_renders, velib>>
    /\ clk.pc = "notify_lookup"
    /\ clk' = IF DictHas(data, clk.index.n)
              THEN [clk EXCEPT !.pc = "notify_mutate", !.live = TRUE,
                               !.dev = DictGet(data, clk.index.n)]
              ELSE [clk EXCEPT !.pc = "raised", !.exc = "KeyError"]
    /\ UNCHANGED <<data, new_data, error, proxy, killed, is_permanant,
                   subscribed, lst, n_signals, n_clicks, expected, shown>>

\* Line 187: format_notification['action'] = action writes into the entry
\* the reference points to: the entry of self.data, unless the listener
\* replaced or deleted it since line 186.
set_policy_mutate ==
    /\ UNCHANGED <<response, n_renders, velib>>
    /\ clk.pc = "notify_mutate"
    /\ clk' = [clk EXCEPT !.pc = "notify_send", !.live = FALSE,
                          !.dev = WithKey(@, "action", StrV(clk.action))]
    /\ data' = IF clk.live
               THEN DictSet(data, clk.index.n,
                            WithKey(clk.dev, "action", StrV(clk.action)))
               ELSE data
    /\ UNCHANGED <<new_data, error, proxy, killed, is_permanant, subscribed,
                   lst, n_signals, n_clicks, expected, shown>>

\* Lines 188-196: the notification, Notification(clk.dev), is formatted
\* and handed to py3.notify_user.  The three calls are in no try block: when
\* one of them fails, its exception leaves _set_policy before line 199.
set_policy_notify ==
    /\ UNCHANGED <<response, n_renders, velib>>
    /\ clk.pc = "notify_send"
    /\ \/ clk' = [clk EXCEPT !.pc = "apply", !.dev = <<>>]
       \/ clk' = [clk EXCEPT !.pc = "raised", !.exc = "NotifyError", !.dev = <<>>]
    /\ UNCHANGED <<data, new_data, error, proxy, killed, is_permanant,
                   subscribed, lst, n_signals, n_clicks, expected, shown>>

\* A Dispatch that removed the entry optimistically on allow and reject
\* too, without waiting for the daemon's policy-change signal.
set_policy_apply_optimistic ==
    /\ UNCHANGED <<response, n_renders, velib>>
    /\ clk.pc = "apply"
    /\ IF DictHas(data, clk.index.n)
       THEN /\ data' = DictDel(data, clk.index.n)
            /\ lst' = ListenerSees(TRUE)
            /\ clk' = IF clk.action = "block"
                      THEN [clk EXCEPT !.pc = "manip_init"]
                      ELSE [clk EXCEPT !.pc = "calling",
                                       !.call = <<clk.index.n, targets(clk.action),
                                                  is_permanant>>]
       ELSE /\ clk' = [clk EXCEPT !.pc = "raised", !.exc = "KeyError"]
            /\ UNCHANGED <<data, lst>>
    /\ UNCHANGED <<new_data, error, proxy, killed, is_permanant, subscribed,
                   n_signals, n_clicks, expected, shown>>

\* Lines 199-206.  block: `if self.data[usbguard_id]` (KeyError when the
\* key is gone; an entry is a non-empty dict).  allow and reject:
\* self.proxy.applyDevicePolicy(usbguard_id, targets[action],
\* self.is_permanant) is called, AttributeError without a proxy.
set_policy_apply ==
    /\ UNCHANGED <<response, n_renders, velib>>
    /\ clk.pc = "apply"
    /\ clk' =
         IF clk.action = "block"
         THEN IF ~DictHas(data, clk.index.n)
              THEN [clk EXCEPT !.pc = "raised", !.exc = "KeyError"]
              ELSE IF TruthyDict(DictGet(data, clk.index.n))
              THEN [clk EXCEPT !.pc = "block_del"]
              ELSE Idle
         ELSE IF ~proxy
         THEN [clk EXCEPT !.pc = "raised", !.exc = "AttributeError"]
         ELSE [clk EXCEPT !.pc = "calling",
                          !.call = <<clk.index.n, targets(clk.action), is_permanant>>]
    /\ UNCHANGED <<data, new_data, error, proxy, killed, is_permanant,
                   subscribed, lst, n_signals, n_clicks, expected, shown>>

\* Lines 205-206: the daemon answers the call, or the call fails and its
\* exception leaves _set_policy, which catches nothing.
apply_device_policy_returns ==
    /\ UNCHANGED <<response, n_renders, velib>>
    /\ clk.pc = "calling"
    /\ \/ clk' = Idle
       \/ clk' = [clk EXCEPT !.pc = "raised", !.exc = "DaemonError", !.call = <<>>]
    /\ UNCHANGED <<data, new_data, error, proxy, killed, is_permanant,
                   subscribed, lst, n_signals, n_clicks, expected, shown>>

\* Line 201: del self.data[usbguard_id]; KeyError when the listener deleted
\* the key after the test of line 200.
block_del ==
    /\ UNCHANGED <<response, n_renders, velib>>
    /\ clk.pc = "block_del"
    /\ IF DictHas(data, clk.index.n)
       THEN /\ data' = DictDel(data, clk.index.n)
            /\ lst' = ListenerSees(TRUE)
            /\ clk' = [clk EXCEPT !.pc = "manip_init"]
       ELSE /\ clk' = [clk EXCEPT !.pc = "raised", !.exc = "KeyError"]
            /\ UNCHANGED <<data, lst, shown>>
    /\ UNCHANGED <<new_data, error, proxy, killed, is_permanant, subscribed,
                   n_signals, n_clicks, expected, shown>>

\* Lines 202-203: self._manipulate_devices(self.data).
click_manip_init ==
    /\ UNCHANGED <<response, n_renders, velib>>
    /\ clk.pc = "manip_init"
    /\ clk' = ManipInit(clk)
    /\ UNCHANGED <<data, new_data, error, proxy, killed, is_permanant,
                   subscribed, lst, n_signals, n_clicks, expected, shown>>

click_manip_next ==
    /\ UNCHANGED <<response, n_renders, velib>>
    /\ clk.pc = "manip_next"
    /\ \E o \in IterOutcomes(clk.it, clk.acc, data) : clk' = ManipNext(clk, o)
    /\ UNCHANGED <<data, new_data, error, proxy, killed, is_permanant,
                   subscribed, lst, n_signals, n_clicks, expected, shown>>

click_manip_body ==
    /\ UNCHANGED <<response, n_renders, velib>>
    /\ clk.pc = "manip_body"
    /\ clk' = ManipBody(clk)
    /\ UNCHANGED <<data, new_data, error, proxy, killed, is_permanant,
                   subscribed, lst, n_signals, n_clicks, expected, shown>>

\* Line 202: self.new_data['format_device'] = the composite; _set_policy
\* and on_click return.
click_store ==
    /\ UNCHANGED <<response, n_renders, velib>>
    /\ clk.pc = "store"
    /\ new_data' = [format_device |-> clk.acc]
    /\ shown' = shown \cup Tags(clk.acc)
    /\ clk' = Idle
    /\ UNCHANGED <<data, error, proxy, killed, is_permanant, subscribed, lst,
                   n_signals, n_clicks, expected>>

\* An exception leaves _set_policy and on_click, which catch nothing.
click_raised ==
    /\ UNCHANGED <<response, n_renders, velib>>
    /\ clk.pc = "raised"
    /\ clk' = Idle
    /\ UNCHANGED <<data, new_data, error, proxy, killed, is_permanant,
                   subscribed, lst, n_signals, n_clicks, expected, shown>>

\* ----------------------------------------------------------- the render
\* py3.safe_format(self.format, {'format_device': ''}) for format
\* '[{format_device}]': a block whose placeholder is empty is left out.
EmptyFullText == StrV("")

\* A render that asked for attention only while a device is listed.
RenderCalm ==
    IF error THEN [kind |-> "error"]
    ELSE IF DOMAIN new_data # {}
    THEN [kind |-> "composite", urgent |-> new_data.format_device # <<>>,
          composite |-> new_data.format_device]
    ELSE [kind |-> "full_text", urgent |-> FALSE, full_text |-> EmptyFullText]

\* usbguard(), lines 240-252, as py3status sees it: py3.error raises, and
\* py3status shows the error; otherwise the response is urgent and carries
\* the composite of new_data when new_data has a key, or the empty text.
Render ==
    IF error THEN [kind |-> "error"]
    ELSE IF DOMAIN new_data # {}
    THEN [kind |-> "composite", urgent |-> TRUE, composite |-> new_data.format_device]
    ELSE [kind |-> "full_text", urgent |-> TRUE, full_text |-> EmptyFullText]

\* py3status calls usbguard() from the module's own thread, at any time
\* after post_config_hook: the call reads self.error and self.new_data as
\* the listener and the click thread left them.
usbguard ==
    /\ n_signals + n_clicks + n_renders < MaxEvents
    /\ response' = Render
    /\ n_renders' = n_renders + 1
    /\ UNCHANGED <<data, new_data, error, proxy, killed, is_permanant,
                   subscribed, lst, clk, n_signals, n_clicks, expected, shown,
                   velib>>

\* ------------------------------------------------------ the specification
Next ==
    \/ run_loop_top
    \/ init_dbus_bus
    \/ init_dbus_get
    \/ get_all_devices
    \/ subscribe_presence
    \/ subscribe_policy
    \/ kill
    \/ on_devices_presence_changed
    \/ presence_del
    \/ on_devices_policy_changed
    \/ policy_del
    \/ listener_manip_init
    \/ listener_manip_next
    \/ listener_manip_body
    \/ listener_store
    \/ listener_update
    \/ listener_raised
    \/ on_click
    \/ set_policy_lookup
    \/ set_policy_mutate
    \/ set_policy_notify
    \/ set_policy_apply
    \/ apply_device_policy_returns
    \/ block_del
    \/ click_manip_init
    \/ click_manip_next
    \/ click_manip_body
    \/ click_store
    \/ click_raised

Spec == Init /\ [][Next]_vars

\* The module with py3status rendering it.
NextRender == Next \/ usbguard

SpecRender == Init /\ [][NextRender]_vars

\* ------------------------------------------- the handlers, one at a time
\* The handlers run to their end one after the other (no two threads inside
\* them at once), on every shape of payload the bus can deliver.
\*
\* The attribute field event[4][4]: a mapping (whose keys may include
\* 'usbguard-id', the external name of the placeholder that
\* post_config_hook always adds), a list, or None.
WideAttrMaps ==
    UNION {[S -> {"", "Mass Storage"}] : S \in SUBSET {"name", "usbguard-id"}}

AttrFields ==
    {[t |-> "map", m |-> m] : m \in WideAttrMaps}
    \cup {[t |-> "list", m |-> <<>>], [t |-> "none", m |-> <<>>]}

\* event[4] of a presence signal: n is the number of positional fields it
\* has, of (id, state, target, rule, attributes).
PresencePayloads ==
    [n : 3..5, id : Ids, state : States, perms : {{}, {"block id"}},
     attrs : AttrFields]

\* event[4] of a policy-change signal.
PolicyPayloads ==
    [n : 3..5, id : Ids, perms : {{}, {"allow id"}, {"reject id"}}]

\* _manipulate_devices run alone: one unit per entry, in the dict's order.
Snapshot(d) == [i \in 1..Len(d) |-> DeviceUnit(d[i].v)]

\* The exception _on_devices_presence_changed raises on a payload: line 76
\* reads event[4][3]; on an insertion line 86 reads event[4][4] and tests
\* `old_key in` it, which None does not support and a list answers with
\* False.
PresenceRaises(p) ==
    IF p.n < 4 THEN "IndexError"
    ELSE IF p.state = 1 /\ "block id" \in p.perms
    THEN IF p.n < 5 THEN "IndexError"
         ELSE IF p.attrs.t = "none" THEN "TypeError" ELSE "none"
    ELSE "none"

\* Lines 81-94 on a payload that raises nothing.
PresenceData(d, p) ==
    IF p.state = 1
    THEN IF "block id" \in p.perms
         THEN DictSet(d, p.id, NewDevice(p.id, p.attrs.m))
         ELSE d
    ELSE IF DictHas(d, p.id) THEN DictDel(d, p.id) ELSE d

\* _on_devices_presence_changed from the signal to its return or to the
\* exception that leaves it (the main loop reports it and goes on).
decode_presence ==
    /\ lst.pc = "mainloop"
    /\ "DevicePresenceChanged" \in subscribed
    /\ n_signals + n_clicks < MaxEvents
    /\ \E p \in PresencePayloads :
         /\ data' = IF PresenceRaises(p) = "none" THEN PresenceData(data, p) ELSE data
         /\ new_data' = IF PresenceRaises(p) = "none"
                        THEN [format_device |-> Snapshot(data')] ELSE new_data
         /\ lst' = [lst EXCEPT
                      !.kind = IF p.n = 5 /\ p.attrs.t = "map"
                               THEN "well_formed" ELSE "malformed",
                      !.exc = PresenceRaises(p)]
    /\ n_signals' = n_signals + 1
    /\ UNCHANGED <<error, proxy, killed, is_permanant, subscribed, clk,
                   n_clicks, shown, expected, response, n_renders, velib>>

\* _on_devices_policy_changed from the signal to its return: line 103
\* reads event[4][3]; the attributes are not read.
decode_policy ==
    /\ lst.pc = "mainloop"
    /\ "DevicePolicyChanged" \in subscribed
    /\ n_signals + n_clicks < MaxEvents
    /\ \E p \in PolicyPayloads :
         /\ IF p.n >= 4 /\ p.perms # {} /\ DictHas(data, p.id)
            THEN /\ data' = DictDel(data, p.id)
                 /\ new_data' = [format_device |-> Snapshot(data')]
            ELSE UNCHANGED <<data, new_data>>
         /\ lst' = [lst EXCEPT
                      !.kind = IF p.n = 5 THEN "well_formed" ELSE "malformed",
                      !.exc = IF p.n < 4 THEN "IndexError" ELSE "none"]
    /\ n_signals' = n_signals + 1
    /\ UNCHANGED <<error, proxy, killed, is_permanant, subscribed, clk,
                   n_clicks, shown, expected, response, n_renders, velib>>

\* The tags of the segments on the bar: those of the cached composite.
BarTags ==
    IF DOMAIN new_data = {} THEN {}
    ELSE {new_data.format_device[i].index : i \in 1..Len(new_data.format_device)}

\* The click thread after a Dispatch: what it was asked, the daemon call it
\* made, the exception that left it.
Dispatched(action, index, call, exc) ==
    [Idle EXCEPT !.action = action, !.index = index, !.call = call, !.exc = exc]

\* on_click and _set_policy from the click to the return, or to the
\* exception that leaves them.
decode_click ==
    /\ clk.pc = "idle"
    /\ n_signals + n_clicks < MaxEvents
    /\ \E button \in Buttons, index \in BarTags \cup {SEP, NoneV} :
         IF ~PolicyGuard(ButtonAction(button), index)
         THEN /\ clk' = Idle
              /\ UNCHANGED <<data, new_data>>
         ELSE IF ~DictHas(data, index.n)
         THEN /\ clk' = Dispatched(ButtonAction(button), index, <<>>, "KeyError")
              /\ UNCHANGED <<data, new_data>>
         ELSE \/ /\ data' = DictSet(data, index.n,
                                    WithKey(DictGet(data, index.n), "action",
                                            StrV(ButtonAction(button))))
                 /\ clk' = Dispatched(ButtonAction(button), index, <<>>, "NotifyError")
                 /\ UNCHANGED new_data
              \/ /\ ButtonAction(button) = "block"
                 /\ data' = DictDel(data, index.n)
                 /\ new_data' = [format_device |-> Snapshot(data')]
                 /\ clk' = Dispatched("block", index, <<>>, "none")
              \/ /\ ButtonAction(button) # "block"
                 /\ data' = DictSet(data, index.n,
                                    WithKey(DictGet(data, index.n), "action",
                                            StrV(ButtonAction(button))))
                 /\ \E exc \in {"none", "DaemonError"} :
                      clk' = Dispatched(ButtonAction(button), index,
                                        <<index.n, targets(ButtonAction(button)),
                                          is_permanant>>, exc)
                 /\ UNCHANGED new_data
    /\ n_clicks' = n_clicks + 1
    /\ UNCHANGED <<error, proxy, killed, is_permanant, subscribed, lst,
                   n_signals, shown, expected, response, n_renders, velib>>

\* The module connected and subscribed, the listener in its main loop:
\* the state Spec reaches by subscribe_policy after a successful connection.
InitDecode ==
    /\ data = <<>>
    /\ new_data = <<>>
    /\ error = FALSE
    /\ proxy = TRUE
    /\ killed = FALSE
    /\ is_permanant = FALSE
    /\ subscribed = {"DevicePresenceChanged", "DevicePolicyChanged"}
    /\ lst = [pc |-> "mainloop", kind |-> "none", id |-> 0, device |-> <<>>,
              it |-> NoIter, cur |-> 0, acc |-> <<>>, exc |-> "none"]
    /\ clk = Idle
    /\ n_signals = 0
    /\ n_clicks = 0
    /\ shown = {}
    /\ expected = {}
    /\ response = [kind |-> "none"]
    /\ n_renders = 0
    /\ velib = VelibOff

NextDecode == decode_presence \/ decode_policy \/ decode_click

SpecDecode == InitDecode /\ [][NextDecode]_vars

\* ------------------------------------------------------ velib_metropole
\* The stations configured (len(station_codes)) are 1..MaxStations.
MaxStations == 4

button_next == 4
button_previous == 5
button_refresh == 2

\* The buttons of a click: the three the module knows, and another.
VelibButtons == {button_next, button_previous, button_refresh, 1}

\* The attributes after post_config_hook, for `codes` configured stations:
\* stations is len(self.stations), data whether the cached answer of the
\* API is usable, idle_zero whether idle_time is 0; py3status renders the
\* module before it delivers a click.  button and shown are the button of
\* the last click and the index of the last render's velib_data.
VelibStart(codes) ==
    [pc |-> "render", codes |-> codes, stations |-> 0, number_of_stations |-> 0,
     station_index |-> 1, toggled |-> FALSE, first_start |-> TRUE,
     idle_zero |-> TRUE, data |-> FALSE, button |-> 0, shown |-> 0]

\* velib_metropole(), lines 234-290.  time_up: cache_timeout has passed
\* since the last refresh; fetched: the request gave usable data.  A
\* usable answer gives one station per configured code (_manipulate).
velib_metropole ==
    /\ velib.pc \in {"render", "click"}
    /\ \E time_up \in BOOLEAN, fetched \in BOOLEAN :
         LET refresh == velib.idle_zero \/ time_up
             fetches == velib.toggled \/ refresh \/ velib.first_start
             got == IF fetches THEN fetched ELSE velib.data
             stations == IF got THEN velib.codes ELSE velib.stations
             index == IF stations # 0 /\ velib.station_index = 0
                      THEN 1 ELSE velib.station_index
         IN velib' = [velib EXCEPT
                        !.pc = "click",
                        !.idle_zero = IF refresh THEN FALSE ELSE @,
                        !.data = got,
                        !.stations = stations,
                        !.number_of_stations = stations,
                        !.station_index = index,
                        !.first_start = FALSE,
                        !.shown = IF stations = 0 THEN 1 ELSE index]
    /\ UNCHANGED <<data, new_data, error, proxy, killed, is_permanant,
                   subscribed, lst, clk, n_signals, n_clicks, shown, expected,
                   response, n_renders>>

\* on_click of velib_metropole, lines 292-305.  After a click py3status
\* renders the module again, unless prevent_refresh was called.
velib_on_click ==
    /\ velib.pc = "click"
    /\ \E button \in VelibButtons :
         velib' = [velib EXCEPT
                     !.toggled = (button = button_refresh),
                     !.station_index =
                        IF button = button_next
                        THEN (@ + 1) % (velib.number_of_stations + 1)
                        ELSE IF button = button_previous
                        THEN (@ - 1) % (velib.number_of_stations + 1)
                        ELSE @,
                     !.idle_zero = IF button = button_refresh THEN TRUE ELSE @,
                     !.button = button,
                     !.pc = IF button \in {button_next, button_previous, button_refresh}
                            THEN "render" ELSE "click"]
    /\ UNCHANGED <<data, new_data, error, proxy, killed, is_permanant,
                   subscribed, lst, clk, n_signals, n_clicks, shown, expected,
                   response, n_renders>>

\* velib_metropole loaded with 1..MaxStations stations configured; usbguard
\* as post_config_hook left it, and not run.
InitVelib ==
    /\ data = <<>>
    /\ new_data = <<>>
    /\ error = FALSE
    /\ proxy = TRUE
    /\ killed = FALSE
    /\ is_permanant = FALSE
    /\ subscribed = {}
    /\ lst = [pc |-> "loop_top", kind |-> "none", id |-> 0, device |-> <<>>,
              it |-> NoIter, cur |-> 0, acc |-> <<>>, exc |-> "none"]
    /\ clk = Idle
    /\ n_signals = 0
    /\ n_clicks = 0
    /\ shown = {}
    /\ expected = {}
    /\ response = [kind |-> "none"]
    /\ n_renders = 0
    /\ velib \in {VelibStart(codes) : codes \in 1..MaxStations}

NextVelib == velib_metropole \/ velib_on_click

SpecVelib == InitVelib /\ [][NextVelib]_vars

\* ------------------------------------------------------------ the claims
\* A step of the click thread, and a step of the listener thread: each step
\* of a thread moves it to another place.
ClickStep == clk'.pc # clk.pc

ListenerStep == lst'.pc # lst.pc

\* The entries of d under key k.
EntriesOf(d, k) == {i \in 1..Len(d) : d[i].k = k}

\* C1: after any sequence of presence and policy signals applied by the
\* listener's handlers to the initially empty Registry (no click has been
\* made), once the handler of the last signal has returned the keys of the
\* Registry are exactly the ids whose last relevant event was an insertion
\* (state 1 with 'block id') not followed by a removal (state 3) or by a
\* policy change granting 'allow id' or 'reject id'.
C1_RegistryIsReplayOfSignals ==
    (lst.pc = "mainloop" /\ n_clicks = 0) => DictKeys(data) = expected

\* C2: while the listener handles an insertion for an id and the click
\* thread runs Dispatch('block') for the same id, no step raises an
\* exception in either thread, and the Registry never holds two entries
\* for the id.
C2_InsertionAndBlockInterleave ==
    [][\A u \in Ids :
         /\ Cardinality(EntriesOf(data', u)) <= 1
         /\ ( /\ lst.kind = "insert" /\ lst.id = u /\ lst.pc # "raised"
              /\ clk.action = "block" /\ clk.index = IntV(u) /\ clk.pc # "raised" )
            => (lst'.pc # "raised" /\ clk'.pc # "raised")]_vars

\* The places where a thread is between two of its accesses to the
\* Registry that belong together: the listener after its test or write and
\* before it has stored the snapshot; the click thread between reading the
\* entry and writing into it, and between its test of the entry and the
\* store of the snapshot.
ListenerSection ==
    {"presence_del", "policy_del", "manip_init", "manip_next", "manip_body", "store"}

ClickSection ==
    {"notify_mutate", "block_del", "manip_init", "manip_next", "manip_body", "store"}

\* C3: the listener's handler and the click handler are never both inside
\* a section that reads or writes the Registry.
C3_RegistryAccessIsExclusive ==
    ~(lst.pc \in ListenerSection /\ clk.pc \in ClickSection)

\* C4: no step of Dispatch('allow', id) changes the set of ids in the
\* Registry (the id stays pending when Dispatch returns), and when the
\* handler of a policy-change signal for id that grants 'allow id' or
\* 'reject id' returns, id is not in the Registry.
C4_AllowRemovesOnlyOnPolicySignal ==
    [][/\ (ClickStep /\ clk.action = "allow") => DictKeys(data') = DictKeys(data)
       /\ (ListenerStep /\ lst.kind = "grant" /\ lst'.pc = "mainloop")
            => ~DictHas(data', lst.id)]_vars

\* C4's case: id was allowed by a click (its entry carries the action), is
\* still pending with the click returned, and the handler of the granting
\* policy-change signal for id is about to delete it.
C4_Witness ==
    /\ lst.kind = "grant" /\ lst.pc = "policy_del" /\ clk.pc = "idle"
    /\ DictHas(data, lst.id)
    /\ "action" \in DOMAIN DictGet(data, lst.id)
    /\ DictGet(data, lst.id)["action"] = StrV("allow")

\* C5: in Dispatch('block', id), for an id in the Registry: the test of
\* line 200 leads to the deletion, the deletion removes id, the handler
\* returns only after it; no step changes or removes another entry, and no
\* step calls applyDevicePolicy.
C5_BlockRemovesLocally ==
    [][(ClickStep /\ clk.action = "block") =>
         /\ \A k \in Ids \ {clk.index.n} :
               /\ DictHas(data', k) <=> DictHas(data, k)
               /\ DictHas(data, k) => DictGet(data', k) = DictGet(data, k)
         /\ clk'.pc # "calling"
         /\ (clk.pc = "apply" /\ DictHas(data, clk.index.n)) => clk'.pc = "block_del"
         /\ (clk.pc = "block_del" /\ DictHas(data, clk.index.n))
               => ~DictHas(data', clk.index.n)
         /\ clk'.pc = "idle" => clk.pc \in {"store", "raised"}]_vars

\* C5's case: Dispatch('block', id) has deleted id and another entry is
\* still in the Registry.
C5_Witness ==
    /\ clk.action = "block" /\ clk.pc = "manip_init"
    /\ ~DictHas(data, clk.index.n)
    /\ Len(data) >= 1

\* C6: a step of Dispatch(action, id) taken while id is not in the
\* Registry raises nothing, leads to no notification and to no daemon
\* call, and leaves the Registry as it is.
C6_UnknownIdIsIgnored ==
    [][( /\ ClickStep
         /\ clk.pc \notin {"idle", "raised", "calling"}
         /\ ~DictHas(data, clk.index.n) )
       => ( /\ clk'.pc \notin {"raised", "notify_send", "calling"}
            /\ data' = data )]_vars

\* C7: when applyDevicePolicy fails, Dispatch returns without raising, and
\* the failure leaves the Registry as it is.
C7_DaemonFailureIsNotFatal ==
    [][(ClickStep /\ clk.pc = "calling") => (clk'.pc = "idle" /\ data' = data)]_vars

\* C8: once kill() has set the flag, the listener subscribes to nothing
\* more.
C8_NoSubscriptionAfterKill ==
    [][killed => subscribed' = subscribed]_vars

\* C9: while Error is set by a failed connection attempt, the listener
\* neither goes on to subscribe nor is subscribed, and it has not died of
\* the missing proxy.
C9_FailedConnectStaysDisconnected ==
    error =>
      /\ subscribed = {}
      /\ lst.pc \notin {"sub_presence", "sub_policy", "mainloop"}
      /\ ~(lst.pc = "dead" /\ lst.exc = "AttributeError")

\* C10: when the handler of an insertion signal (state 1, 'block id') has
\* stored its entry, the Registry holds exactly one entry for the id, and
\* it is the entry built from this signal; in particular when the id was
\* pending already.
C10_InsertIsIdempotent ==
    [][(lst.pc = "mainloop" /\ lst'.kind = "insert") =>
         /\ Cardinality(EntriesOf(data', lst'.id)) = 1
         /\ DictGet(data', lst'.id) = lst'.device]_vars

\* C10's case: the first signal inserted id (the composite it stored tags
\* id), the second signal is an insertion for id again and has stored its
\* entry, whose name is not the one the first signal gave.
C10_Witness ==
    /\ lst.kind = "insert" /\ lst.pc = "manip_init"
    /\ n_signals = 2 /\ n_clicks = 0
    /\ "format_device" \in DOMAIN new_data
    /\ Len(new_data.format_device) = 1
    /\ new_data.format_device[1].index = IntV(lst.id)
    /\ new_data.format_device[1].full_text # safe_format_device(DictGet(data, lst.id))

\* C11: a removal (a presence signal that is not an insertion, or a
\* granting policy-change signal) for an id that is not in the Registry
\* passes the membership test to no deletion: the step changes nothing in
\* the Registry and raises nothing, and with no click running the rest of
\* the handler raises nothing and changes nothing either.
C11_RemovalOfAbsentIdIsNoOp ==
    [][/\ ( /\ lst.pc = "mainloop" /\ lst'.kind \in {"remove", "grant"}
            /\ ~DictHas(data, lst'.id) )
          => ( /\ data' = data
               /\ lst'.pc \notin {"presence_del", "policy_del", "raised"} )
       /\ (n_clicks = 0 /\ lst.kind \in {"remove", "grant"} /\ ~DictHas(data, lst.id))
          => (lst'.pc # "raised" /\ data' = data)]_vars

\* C11's case: a granting policy-change signal for an id that was never
\* inserted has been handled while another device is pending.
C11_Witness ==
    /\ lst.kind = "grant" /\ lst.pc = "update"
    /\ n_clicks = 0 /\ lst.id \notin shown /\ ~DictHas(data, lst.id)
    /\ Len(data) >= 1

\* C12: a presence signal whose state is neither 1 nor 3 removes nothing.
\* The handler is about to delete the id of its signal (line 94) and the
\* signal was no removal: the id is still among the ids the signals leave
\* pending, which a state 3 would have taken it out of.  The step leaves
\* the keys of the Registry as they are.
C12_OnlyStateRemovedRemoves ==
    [][(ListenerStep /\ lst.pc = "presence_del" /\ lst.id \in expected)
         => DictKeys(data') = DictKeys(data)]_vars

\* C13: the handler of a signal that decodes to no event (a state-1
\* presence signal without 'block id', a policy-change signal with neither
\* 'allow id' nor 'reject id') changes nothing in the Registry, from its
\* first step to its return.
C13_NoEventLeavesRegistry ==
    [][( /\ ListenerStep
         /\ \/ lst'.kind \in {"ignored", "no_grant"}
            \/ lst.kind \in {"ignored", "no_grant"} )
       => data' = data]_vars

\* C13's case: a state-1 signal without 'block id' for a pending id has
\* been handled up to its update, the entry of the id still in place.
C13_Witness ==
    /\ lst.kind = "ignored" /\ lst.pc = "update"
    /\ DictHas(data, lst.id) /\ n_clicks = 0

\* C14: an entry of the Registry changes only by being replaced as a whole
\* by the handler of an insertion signal for its id: no other step leaves
\* an id in the Registry with an entry that differs from the one it had.
C14_EntriesAreNeverMutated ==
    [][\A k \in Ids :
         (DictHas(data, k) /\ DictHas(data', k) /\ DictGet(data', k) # DictGet(data, k))
           => (lst.pc = "mainloop" /\ lst'.kind = "insert" /\ lst'.id = k)]_vars

\* C15: with a notification template configured, Dispatch goes from the
\* notification (the entry is looked up, the action written into it, the
\* text formatted and sent) on to the action of line 199: no step of the
\* notification ends the Dispatch.
C15_NotifyFailureDoesNotAbort ==
    [][(ClickStep /\ clk.pc \in {"notify_lookup", "notify_mutate", "notify_send"})
         => clk'.pc \in {"notify_mutate", "notify_send", "apply"}]_vars

\* C16: a Dispatch of allow or reject calls applyDevicePolicy with the id,
\* the code of the action (0 for allow, 2 for reject) and the permanent
\* flag, and it ends (returns or raises) only out of that one call.
C16_OneCallWithCodeAndFlag ==
    [][(ClickStep /\ clk.action \in {"allow", "reject"}) =>
         /\ clk'.pc = "calling" =>
               clk'.call = <<clk.index.n, IF clk.action = "allow" THEN 0 ELSE 2,
                             is_permanant>>
         /\ clk'.pc \in {"idle", "raised"} => clk.pc \in {"calling", "raised"}]_vars

\* C17: while no connection attempt has succeeded (self.proxy was never
\* assigned, so the attempt of post_config_hook failed and none since has
\* succeeded), every call of usbguard() reports the error.
C17_ErrorStaysUntilReconnect ==
    [][(n_renders' = n_renders + 1 /\ ~proxy) => response'.kind = "error"]_vars

\* C18: whatever listDevices does, the listener, which has a proxy to call
\* it on, goes on from the enumeration to its first subscription.
C18_EnumerationFailureIsIgnored ==
    [][(ListenerStep /\ lst.pc = "get_all" /\ proxy) => lst'.pc = "sub_presence"]_vars

\* C19: the entry an insertion signal creates has a field for every
\* configured placeholder (None when the signal does not supply it), no
\* field besides the placeholders and the routing index, and the signal's
\* id.
C19_EntryHasEveryPlaceholder ==
    [][(lst.pc = "mainloop" /\ lst'.kind = "insert") =>
         /\ placeholders \subseteq DOMAIN lst'.device
         /\ DOMAIN lst'.device \subseteq placeholders \cup {"index"}
         /\ lst'.device["usbguard_id"] = IntV(lst'.id)
         /\ DictGet(data', lst'.id) = lst'.device]_vars

\* C20: the snapshot lists the pending devices oldest insertion first, a
\* re-inserted id counting from its latest insertion: the snapshot that the
\* handler of an insertion signal has built (no click interfering) ends
\* with the device just inserted.
C20_SnapshotInInsertionOrder ==
    (lst.pc = "store" /\ lst.kind = "insert" /\ n_clicks = 0)
      => /\ Len(lst.acc) >= 1
         /\ lst.acc[Len(lst.acc)].index = IntV(lst.id)

\* C21: every entry of the Registry carries its key as index and as
\* usbguard_id, whatever the signal's attributes were, and the cached
\* composite tags each segment with the key of its device; a click on a
\* segment with an action button acts on the device of that key only (the
\* daemon call names it, a block removes it and nothing else), and a click
\* that passes no action changes nothing and calls nothing.
C21_ClickRoutingRoundTrip ==
    [][/\ \A i \in 1..Len(data') :
            /\ data'[i].v["index"] = IntV(data'[i].k)
            /\ data'[i].v["usbguard_id"] = IntV(data'[i].k)
       /\ BarTags' = {IntV(k) : k \in DictKeys(data')}
       /\ n_clicks' = n_clicks + 1 =>
            /\ clk'.call # <<>> =>
                  (clk'.call[1] = clk'.index.n /\ DictHas(data, clk'.call[1]))
            /\ \A k \in Ids :
                  (DictHas(data, k) /\ ~DictHas(data', k))
                    => (clk'.action = "block" /\ clk'.index = IntV(k))
            /\ clk'.action = "none" => (data' = data /\ clk'.call = <<>>)]_vars

\* C22: the handler of a malformed payload (positional fields missing, or
\* an attribute field that is no mapping) leaves the Registry as it was,
\* and the listener is back in its main loop for the next signal.
C22_MalformedPayloadIsDropped ==
    [][(n_signals' = n_signals + 1 /\ lst'.kind = "malformed")
         => (data' = data /\ lst'.pc = "mainloop")]_vars

\* C23: every response usbguard() produces (it produces none when the
\* connection error is set: py3.error raises) is urgent, whether devices
\* are pending or not; and a render of the empty Registry, no handler being
\* at work on it, gives an empty device segment.
C23_EveryResponseIsUrgent ==
    [][n_renders' = n_renders + 1 =>
         /\ response'.kind # "error" => response'.urgent
         /\ (~error /\ data = <<>> /\ lst.kind = "none" /\ n_clicks = 0)
              => \/ response'.kind = "full_text" /\ response'.full_text = StrV("")
                 \/ response'.kind = "composite" /\ response'.composite = <<>>]_vars

\* C23's case: a device was inserted and removed again, and the render of
\* the empty Registry gave an urgent response with no device in it.
C23_Witness ==
    /\ response.kind = "composite" /\ response.composite = <<>>
    /\ response.urgent /\ data = <<>> /\ n_signals = 2 /\ n_clicks = 0

\* The ids the cached composite tags, in its order, and the keys of a dict
\* in its order.
CachedIds ==
    IF DOMAIN new_data = {} THEN <<>>
    ELSE [i \in 1..Len(new_data.format_device) |-> new_data.format_device[i].index.n]

KeysInOrder(d) == [i \in 1..Len(d) |-> d[i].k]

\* C24: whenever neither the listener's handler nor the click handler is
\* at work, the cached composite tags exactly the keys of the Registry, in
\* the Registry's order.
C24_CachedListIsNeverStale ==
    (lst.kind = "none" /\ clk.pc = "idle") => CachedIds = KeysInOrder(data)

\* C25: with N >= 2 stations loaded, the render that follows a click shows
\* an index within 1..N; after button_next it shows the next station, 1
\* after N; after button_previous the station before, N after 1.
C25_ScrollCyclesBothWays ==
    [][(velib.pc = "render" /\ velib'.pc = "click" /\ velib.number_of_stations >= 2)
         => /\ velib'.shown \in 1..velib.number_of_stations
            /\ velib.button = button_next =>
                  velib'.shown = IF velib.shown = velib.number_of_stations
                                 THEN 1 ELSE velib.shown + 1
            /\ velib.button = button_previous =>
                  velib'.shown = IF velib.shown = 1
                                 THEN velib.number_of_stations
                                 ELSE velib.shown - 1]_vars

====
